---- MODULE Spec2Model ----
(***************************************************************************)
(* A model of src/mcp/server/fastmcp/server.py: the FastMCP facade (its    *)
(* constructor, the registration decorators, call_tool / read_resource,    *)
(* the two HTTP app builders), the Context class and the content           *)
(* normalizer _convert_to_content.                                         *)
(*                                                                         *)
(* Python values are records tagged by their type in field t. Strings that *)
(* the code inspects character by character (resource URIs) are sequences  *)
(* of one-character strings.                                               *)
(***************************************************************************)
EXTENDS Integers, Sequences, FiniteSets, TLC

VARIABLES
    phase,                 \* "init" | "constructed" | "config_error"
    ctor,                  \* the arguments FastMCP.__init__ was called with
    settings,              \* self.settings
    auth_server_provider,  \* self._auth_server_provider is not None
    token_verifier,        \* self._token_verifier: "None" | "given" | "ProviderTokenVerifier"
    handlers_set,          \* _setup_handlers() has run
    tool_manager,          \* self._tool_manager: [warn, entries]
    resource_manager,      \* self._resource_manager: [warn, resources, templates]
    prompt_manager,        \* self._prompt_manager: [warn, entries]
    custom_starlette_routes, \* self._custom_starlette_routes
    session_manager,       \* self._session_manager
    apps,                  \* the Starlette apps sse_app() / streamable_http_app() returned last
    request_ctx,           \* the ambient request context of each task (a contextvar)
    inflight,              \* per task: the tool call whose function is running, if any
    closed,                \* the sessions whose transport has closed
    connections,           \* per connection: its stream pair and its run-loop
    last,                  \* what the last operation did (outcome, handler runs, ...)
    result,                \* the value under normalization
    converted,             \* _convert_to_content(result), once computed
    reconverted            \* _convert_to_content(converted), once computed

serverVars == <<phase, ctor, settings, auth_server_provider, token_verifier, handlers_set>>
regVars == <<tool_manager, resource_manager, prompt_manager>>
normVars == <<result, converted, reconverted>>
httpVars == <<custom_starlette_routes, session_manager, apps>>
liveVars == <<inflight, closed, connections>>
vars == <<serverVars, regVars, httpVars, request_ctx, liveVars, last, normVars>>

(***************************************************************************)
(* Bounds of the model.                                                    *)
(***************************************************************************)
MaxSize == 4
MaxCalls == 2
MaxRoutes == 2

(***************************************************************************)
(* Python values.                                                          *)
(***************************************************************************)
PyNone == [t |-> "None"]
PyStr(s) == [t |-> "str", text |-> s]
PyInt(n) == [t |-> "int", n |-> n]
PyBool(b) == [t |-> "bool", b |-> b]
PyList(xs) == [t |-> "list", items |-> xs]
PyTuple(xs) == [t |-> "tuple", items |-> xs]
Image(d) == [t |-> "Image", data |-> d]
TextContent(s) == [t |-> "TextContent", type |-> "text", text |-> s]
ImageContent(d, m) == [t |-> "ImageContent", type |-> "image", data |-> d, mimeType |-> m]

\* ContentBlock is the union of the typed content classes.
ContentBlock == {"TextContent", "ImageContent"}

\* Image.to_image_content()
to_image_content(img) == ImageContent(img.data, "image/png")

Digit(d) == <<"0", "1", "2", "3", "4", "5", "6", "7", "8", "9">>[d + 1]

RECURSIVE ToDec(_)
ToDec(n) == IF n < 10 THEN Digit(n) ELSE ToDec(n \div 10) \o Digit(n % 10)

\* pydantic_core.to_json(result, fallback=str, indent=2).decode() on the scalars
\* of the model: an int prints in decimal, a bool as true / false.
to_json(v) ==
    IF v.t = "int" THEN (IF v.n < 0 THEN "-" \o ToDec(-v.n) ELSE ToDec(v.n))
    ELSE IF v.b THEN "true" ELSE "false"

\* itertools.chain.from_iterable over a sequence of sequences
RECURSIVE chain_from_iterable(_)
chain_from_iterable(ss) ==
    IF ss = <<>> THEN <<>> ELSE Head(ss) \o chain_from_iterable(Tail(ss))

RECURSIVE _convert_to_content(_)

\* Mutant: the None case is dropped, so None falls through to the serializer.
ConvertNoneSerialized(r) ==
    IF r.t \in ContentBlock THEN <<r>>
    ELSE IF r.t = "Image" THEN <<to_image_content(r)>>
    ELSE IF r.t \in {"list", "tuple"}
        THEN chain_from_iterable([i \in 1..Len(r.items) |-> _convert_to_content(r.items[i])])
    ELSE IF r.t = "None" THEN <<TextContent("null")>>
    ELSE <<TextContent(IF r.t # "str" THEN to_json(r) ELSE r.text)>>

\* Mutant: the ContentBlock pass-through is dropped, so a block is serialized.
ConvertBlockSerialized(r) ==
    IF r.t = "None" THEN <<>>
    ELSE IF r.t = "Image" THEN <<to_image_content(r)>>
    ELSE IF r.t \in {"list", "tuple"}
        THEN chain_from_iterable([i \in 1..Len(r.items) |-> _convert_to_content(r.items[i])])
    ELSE IF r.t \in ContentBlock
        THEN <<TextContent("{" \o (IF r.t = "TextContent" THEN r.text ELSE r.data) \o "}")>>
    ELSE <<TextContent(IF r.t # "str" THEN to_json(r) ELSE r.text)>>

_convert_to_content(r) ==
    IF r.t = "None" THEN <<>>
    ELSE IF r.t \in ContentBlock THEN <<r>>
    ELSE IF r.t = "Image" THEN <<to_image_content(r)>>
    ELSE IF r.t \in {"list", "tuple"}
        THEN chain_from_iterable([i \in 1..Len(r.items) |-> _convert_to_content(r.items[i])])
    ELSE <<TextContent(IF r.t # "str" THEN to_json(r) ELSE r.text)>>

(***************************************************************************)
(* The handler return values the normalizer is checked on: every value of  *)
(* at most MaxSize nodes, a node being a scalar or a list / tuple.         *)
(***************************************************************************)
LeafValues ==
    {PyNone, TextContent("hi"), Image("px"), PyStr("hi"), PyInt(42), PyBool(TRUE)}

RECURSIVE ValuesOfSize(_), ForestsOfSize(_)
ValuesOfSize(n) ==
    IF n = 0 THEN {}
    ELSE (IF n = 1 THEN LeafValues ELSE {})
         \cup {PyList(f) : f \in ForestsOfSize(n - 1)}
         \cup {PyTuple(f) : f \in ForestsOfSize(n - 1)}
ForestsOfSize(n) ==
    IF n = 0 THEN {<<>>}
    ELSE UNION {{<<v>> \o f : v \in ValuesOfSize(k), f \in ForestsOfSize(n - k)} : k \in 1..n}

Values == UNION {ValuesOfSize(n) : n \in 1..MaxSize}

Pending == [done |-> FALSE, blocks |-> <<>>]

(***************************************************************************)
(* Character strings: resource URIs and parameter names.                   *)
(***************************************************************************)
S_items == <<"i", "t", "e", "m", "s">>
S_id == <<"i", "d">>
S_x == <<"x">>
U_items_id == S_items \o <<"/", "{", "i", "d", "}">>      \* "items/{id}"
U_id_42 == <<"{", "i", "d", "}", "/", "4", "2">>          \* "{id}/42"
U_items_42 == S_items \o <<"/", "4", "2">>                \* "items/42"
U_items_ == S_items \o <<"/">>                            \* "items/"
U_items_braces == S_items \o <<"/", "{", "}">>            \* "items/{}"
U_items_rev == S_items \o <<"/", "}", "{">>            \* "items/}{"
U_data == <<"d", "a", "t", "a">>                          \* "data"

\* \w of Python's re: letters, digits and the underscore
WordChars ==
    {"a", "b", "c", "d", "e", "f", "g", "h", "i", "j", "k", "l", "m", "n", "o", "p",
     "q", "r", "s", "t", "u", "v", "w", "x", "y", "z", "_",
     "0", "1", "2", "3", "4", "5", "6", "7", "8", "9"}

\* the length of the longest run of \w characters of s that starts at i
RECURSIVE WordRun(_, _)
WordRun(s, i) ==
    IF i <= Len(s) /\ s[i] \in WordChars THEN 1 + WordRun(s, i + 1) ELSE 0

\* set(re.findall(r"{(\w+)}", s)), scanning from position i
RECURSIVE re_findall(_, _)
re_findall(s, i) ==
    IF i > Len(s) THEN {}
    ELSE LET n == WordRun(s, i + 1)
         IN IF s[i] = "{" /\ n > 0 /\ i + 1 + n <= Len(s) /\ s[i + 1 + n] = "}"
                THEN {SubSeq(s, i + 1, i + n)} \cup re_findall(s, i + 2 + n)
                ELSE re_findall(s, i + 1)

\* c in s
Contains(s, c) == \E i \in 1..Len(s) : s[i] = c

(***************************************************************************)
(* Settings and the constructor.                                           *)
(***************************************************************************)
\* settings.auth: None, or AuthSettings. required_scopes None and [] are both read
\* as no scopes (required_scopes or []), so the field is a set.
NoAuth == [present |-> FALSE, required_scopes |-> {}, resource_server_url |-> FALSE]
AuthSettings(required_scopes, resource_server_url) ==
    [present |-> TRUE, required_scopes |-> required_scopes,
     resource_server_url |-> resource_server_url]

\* class Settings with its defaults
Settings(auth, warn_tools, warn_resources, warn_prompts) ==
    [auth |-> auth,
     warn_on_duplicate_tools |-> warn_tools,
     warn_on_duplicate_resources |-> warn_resources,
     warn_on_duplicate_prompts |-> warn_prompts]

DefaultSettings == Settings(NoAuth, TRUE, TRUE, TRUE)

\* Mutant: the branch for absent auth settings is dropped.
AuthWiringErrorNoElse(auth, provider, verifier) ==
    IF auth
        THEN IF provider /\ verifier
                 THEN "Cannot specify both auth_server_provider and token_verifier"
             ELSE IF ~provider /\ ~verifier
                 THEN "Must specify either auth_server_provider or token_verifier when auth is enabled"
             ELSE "ok"
        ELSE "ok"

\* FastMCP.__init__: validate auth configuration
AuthWiringError(auth, provider, verifier) ==
    IF auth
        THEN IF provider /\ verifier
                 THEN "Cannot specify both auth_server_provider and token_verifier"
             ELSE IF ~provider /\ ~verifier
                 THEN "Must specify either auth_server_provider or token_verifier when auth is enabled"
             ELSE "ok"
        ELSE IF provider \/ verifier
                 THEN "Cannot specify auth_server_provider or token_verifier without auth settings"
             ELSE "ok"

\* The tasks of the process: "main" runs outside any request, the others each
\* serve one request at a time.
RequestTasks == {"task1", "task2"}
Tasks == {"main"} \cup RequestTasks

\* the value of the request contextvar where no request is in flight (LookupError)
NoRequest == [present |-> FALSE]

\* self._session_manager = None
NoSessionManager == [present |-> FALSE]

\* no app built yet
NoApp == [built |-> FALSE, routes |-> <<>>, middleware |-> <<>>]

\* no tool call in flight on a task
NoCall == [active |-> FALSE]

\* the connections of the transports: the process's stdio pipe, and two SSE clients
Connections == {"stdio", "sse1", "sse2"}

\* a connection nobody has opened yet
NotConnected ==
    [state |-> "none", pairs |-> 0, read_stream |-> "none", write_stream |-> "none",
     run_loops |-> 0, ended |-> "no"]

\* Mutant: the tool manager is given the resources' warning flag.
NewToolManagerResourceFlag(s) == [warn |-> s.warn_on_duplicate_resources, entries |-> <<>>]

\* ToolManager(tools=None, warn_on_duplicate_tools=settings.warn_on_duplicate_tools)
NewToolManager(s) == [warn |-> s.warn_on_duplicate_tools, entries |-> <<>>]

\* ResourceManager(warn_on_duplicate_resources=settings.warn_on_duplicate_resources)
NewResourceManager(s) ==
    [warn |-> s.warn_on_duplicate_resources, resources |-> <<>>, templates |-> <<>>]

\* PromptManager(warn_on_duplicate_prompts=settings.warn_on_duplicate_prompts)
NewPromptManager(s) == [warn |-> s.warn_on_duplicate_prompts, entries |-> <<>>]

ServerInit ==
    /\ phase = "init"
    /\ ctor = [called |-> FALSE]
    /\ settings = DefaultSettings
    /\ auth_server_provider = FALSE
    /\ token_verifier = "None"
    /\ handlers_set = FALSE
    /\ tool_manager = NewToolManager(DefaultSettings)
    /\ resource_manager = NewResourceManager(DefaultSettings)
    /\ prompt_manager = NewPromptManager(DefaultSettings)
    /\ custom_starlette_routes = <<>>
    /\ session_manager = NoSessionManager
    /\ apps = [sse |-> NoApp, streamable_http |-> NoApp]
    /\ request_ctx = [k \in Tasks |-> NoRequest]
    /\ inflight = [k \in Tasks |-> NoCall]
    /\ closed = {}
    /\ connections = [c \in Connections |-> NotConnected]
    /\ last = [op |-> "none"]

NormIdle ==
    /\ result = PyNone
    /\ converted = Pending
    /\ reconverted = Pending

\* Mutant: a provider is not wrapped into a token verifier.
ConstructNoWrap(auth, provider, verifier, warn_tools, warn_resources, warn_prompts) ==
    LET s == Settings(auth, warn_tools, warn_resources, warn_prompts)
        err == AuthWiringError(auth.present, provider, verifier)
    IN /\ phase = "init"
       /\ ctor' = [called |-> TRUE, auth |-> auth.present,
                   auth_server_provider |-> provider, token_verifier |-> verifier]
       /\ settings' = s
       /\ tool_manager' = NewToolManager(s)
       /\ resource_manager' = NewResourceManager(s)
       /\ prompt_manager' = NewPromptManager(s)
       /\ IF err # "ok"
              THEN /\ phase' = "config_error"
                   /\ last' = [op |-> "__init__", outcome |-> "ValueError", message |-> err]
                   /\ UNCHANGED <<auth_server_provider, token_verifier, handlers_set>>
              ELSE /\ phase' = "constructed"
                   /\ auth_server_provider' = provider
                   /\ token_verifier' =
                        IF verifier THEN "given" ELSE "None"
                   /\ handlers_set' = TRUE
                   /\ last' = [op |-> "__init__", outcome |-> "ok"]
       /\ custom_starlette_routes' = <<>>
       /\ session_manager' = NoSessionManager
       /\ UNCHANGED <<apps, request_ctx, liveVars, normVars>>

\* FastMCP.__init__(auth_server_provider, token_verifier, **settings)
Construct(auth, provider, verifier, warn_tools, warn_resources, warn_prompts) ==
    LET s == Settings(auth, warn_tools, warn_resources, warn_prompts)
        err == AuthWiringError(auth.present, provider, verifier)
    IN /\ phase = "init"
       /\ ctor' = [called |-> TRUE, auth |-> auth.present,
                   auth_server_provider |-> provider, token_verifier |-> verifier]
       /\ settings' = s
       /\ tool_manager' = NewToolManager(s)
       /\ resource_manager' = NewResourceManager(s)
       /\ prompt_manager' = NewPromptManager(s)
       /\ IF err # "ok"
              THEN /\ phase' = "config_error"
                   /\ last' = [op |-> "__init__", outcome |-> "ValueError", message |-> err]
                   /\ UNCHANGED <<auth_server_provider, token_verifier, handlers_set>>
              ELSE /\ phase' = "constructed"
                   /\ auth_server_provider' = provider
                   /\ token_verifier' =
                        IF verifier THEN "given"
                        ELSE IF provider THEN "ProviderTokenVerifier"
                        ELSE "None"
                   /\ handlers_set' = TRUE
                   /\ last' = [op |-> "__init__", outcome |-> "ok"]
       /\ custom_starlette_routes' = <<>>
       /\ session_manager' = NoSessionManager
       /\ UNCHANGED <<apps, request_ctx, liveVars, normVars>>

(***************************************************************************)
(* The capability registries. The managers' code is not part of the        *)
(* source at hand; they are modelled from the specification: keyed,        *)
(* insertion-ordered stores in which a registration under an existing key  *)
(* replaces the entry, with a warning when the manager's flag is set.      *)
(***************************************************************************)
HasKey(entries, key) == \E i \in 1..Len(entries) : entries[i].key = key

RegistryPut(entries, e) ==
    IF HasKey(entries, e.key)
        THEN [i \in 1..Len(entries) |-> IF entries[i].key = e.key THEN e ELSE entries[i]]
        ELSE Append(entries, e)

\* get(key): the entries the key resolves to
RegistryGet(entries, key) == {i \in 1..Len(entries) : entries[i].key = key}

\* what a registration reports
Registered(op, registry, e, entries, warn) ==
    [op |-> op, registry |-> registry, key |-> e.key, fn |-> e.fn, outcome |-> "ok",
     duplicate |-> HasKey(entries, e.key),
     warned |-> HasKey(entries, e.key) /\ warn]

(***************************************************************************)
(* Registration through the facade.                                        *)
(***************************************************************************)
\* the functions offered to the decorators, with inspect.signature(fn).parameters
Fn(name, params) == [name |-> name, params |-> params]
get_data == Fn("get_data", {})
get_item == Fn("get_item", {S_id})
find_item == Fn("find_item", {S_id})
get_x == Fn("get_x", {S_x})
ResourceFns == {get_data, get_item, find_item, get_x}
ResourceUris == {U_items_id, U_id_42, U_items_42, U_items_braces}

echo == Fn("echo", {S_x})
shout == Fn("shout", {S_x})
ToolFns == {echo, shout}
ToolNames == {"echo", "add"}
PromptFns == {Fn("greet", {}), Fn("hello", {})}
PromptNames == {"greet"}

\* FastMCP.add_tool(fn, name) / the tool() decorator
add_tool(fn, name) ==
    LET e == [key |-> name, fn |-> fn]
    IN /\ phase = "constructed"
       /\ tool_manager' = [tool_manager EXCEPT !.entries = RegistryPut(@, e)]
       /\ last' = Registered("add_tool", "tools", e, tool_manager.entries, tool_manager.warn)
       /\ UNCHANGED <<serverVars, resource_manager, prompt_manager, httpVars, request_ctx, liveVars, normVars>>

\* FastMCP.prompt(name) decorator: Prompt.from_function, then add_prompt
prompt(fn, name) ==
    LET e == [key |-> name, fn |-> fn]
    IN /\ phase = "constructed"
       /\ prompt_manager' = [prompt_manager EXCEPT !.entries = RegistryPut(@, e)]
       /\ last' = Registered("prompt", "prompts", e, prompt_manager.entries, prompt_manager.warn)
       /\ UNCHANGED <<serverVars, tool_manager, resource_manager, httpVars, request_ctx, liveVars, normVars>>

\* Mutant: the URI parameters only have to be among the function's parameters.
decorator_kind_subset(uri, fn) ==
    LET has_uri_params == Contains(uri, "{") /\ Contains(uri, "}")
        has_func_params == fn.params # {}
    IN IF has_uri_params \/ has_func_params
           THEN IF ~(re_findall(uri, 1) \subseteq fn.params) THEN "ValueError" ELSE "template"
           ELSE "resource"

\* FastMCP.resource.decorator: where the function goes
decorator_kind(uri, fn) ==
    LET has_uri_params == Contains(uri, "{") /\ Contains(uri, "}")
        has_func_params == fn.params # {}
        uri_params == re_findall(uri, 1)
        func_params == fn.params
    IN IF has_uri_params \/ has_func_params
           THEN IF uri_params # func_params THEN "ValueError" ELSE "template"
           ELSE "resource"

\* FastMCP.resource(uri) applied to fn
resource(uri, fn) ==
    LET e == [key |-> uri, fn |-> fn]
        kind == decorator_kind(uri, fn)
    IN /\ phase = "constructed"
       /\ CASE kind = "ValueError" ->
                 /\ last' = [op |-> "resource", registry |-> "none", key |-> uri,
                             fn |-> fn, outcome |-> "ValueError", duplicate |-> FALSE,
                             warned |-> FALSE, before |-> resource_manager]
                 /\ UNCHANGED resource_manager
            [] kind = "template" ->
                 /\ resource_manager' =
                      [resource_manager EXCEPT !.templates = RegistryPut(@, e)]
                 /\ last' = Registered("resource", "templates", e, resource_manager.templates,
                                       resource_manager.warn)
            [] kind = "resource" ->
                 /\ resource_manager' =
                      [resource_manager EXCEPT !.resources = RegistryPut(@, e)]
                 /\ last' = Registered("resource", "resources", e, resource_manager.resources,
                                       resource_manager.warn)
       /\ UNCHANGED <<serverVars, tool_manager, prompt_manager, httpVars, request_ctx, liveVars, normVars>>

\* list_tools / list_resources / list_resource_templates / list_prompts: one
\* descriptor per entry of the manager, in the manager's order
list_tools == [i \in 1..Len(tool_manager.entries) |-> tool_manager.entries[i].key]
list_resources ==
    [i \in 1..Len(resource_manager.resources) |-> resource_manager.resources[i].key]
list_resource_templates ==
    [i \in 1..Len(resource_manager.templates) |-> resource_manager.templates[i].key]
list_prompts == [i \in 1..Len(prompt_manager.entries) |-> prompt_manager.entries[i].key]

(***************************************************************************)
(* Reading resources. Template matching and ResourceManager.get_resource   *)
(* are not part of the source at hand; they are modelled from the          *)
(* specification: a placeholder {name} takes the run of characters up to   *)
(* the next literal of the template or the next "/", which must not be     *)
(* empty; exact-URI resources are consulted first, then the templates in   *)
(* registration order, and the first structural match wins.                *)
(***************************************************************************)
NoMatch == [ok |-> FALSE, params |-> <<>>]

\* the length of the longest run of characters of u from j that are not in stop
RECURSIVE RunUntil(_, _, _)
RunUntil(u, j, stop) ==
    IF j <= Len(u) /\ u[j] \notin stop THEN 1 + RunUntil(u, j + 1, stop) ELSE 0

\* template t from position i against the URI u from position j
RECURSIVE MatchFrom(_, _, _, _)
MatchFrom(t, i, u, j) ==
    IF i > Len(t) THEN (IF j > Len(u) THEN [ok |-> TRUE, params |-> <<>>] ELSE NoMatch)
    ELSE LET n == WordRun(t, i + 1)
             placeholder == t[i] = "{" /\ n > 0 /\ i + 1 + n <= Len(t) /\ t[i + 1 + n] = "}"
             next == i + 2 + n
             stop == IF next <= Len(t) THEN {t[next], "/"} ELSE {"/"}
             m == RunUntil(u, j, stop)
             rest == MatchFrom(t, next, u, j + m)
         IN IF placeholder
                THEN IF m > 0 /\ rest.ok
                         THEN [ok |-> TRUE,
                               params |-> (SubSeq(t, i + 1, i + n) :> SubSeq(u, j, j + m - 1))
                                            @@ rest.params]
                         ELSE NoMatch
            ELSE IF j <= Len(u) /\ u[j] = t[i] THEN MatchFrom(t, i + 1, u, j + 1)
            ELSE NoMatch

\* ResourceTemplate.matches(uri)
matches(template, uri) == MatchFrom(template, 1, uri, 1)

Matching(rm, uri) == {i \in 1..Len(rm.templates) : matches(rm.templates[i].key, uri).ok}

Min(S) == CHOOSE x \in S : \A y \in S : x <= y
Max(S) == CHOOSE x \in S : \A y \in S : x >= y

NotFound == [found |-> FALSE]

\* the position of the entry a key resolves to
IndexOf(entries, key) == Min(RegistryGet(entries, key))

\* Mutant: the last matching template wins.
get_resource_last_match(rm, uri) ==
    IF HasKey(rm.resources, uri)
        THEN [found |-> TRUE, registry |-> "resources", key |-> uri,
              fn |-> rm.resources[Min(RegistryGet(rm.resources, uri))].fn, params |-> <<>>]
    ELSE IF Matching(rm, uri) # {}
        THEN LET t == rm.templates[Max(Matching(rm, uri))]
             IN [found |-> TRUE, registry |-> "templates", key |-> t.key,
                 fn |-> t.fn, params |-> matches(t.key, uri).params]
    ELSE NotFound

\* ResourceManager.get_resource(uri)
get_resource(rm, uri) ==
    IF HasKey(rm.resources, uri)
        THEN [found |-> TRUE, registry |-> "resources", key |-> uri,
              fn |-> rm.resources[Min(RegistryGet(rm.resources, uri))].fn, params |-> <<>>]
    ELSE IF Matching(rm, uri) # {}
        THEN LET t == rm.templates[Min(Matching(rm, uri))]
             IN [found |-> TRUE, registry |-> "templates", key |-> t.key,
                 fn |-> t.fn, params |-> matches(t.key, uri).params]
    ELSE NotFound

\* one run of a user function
Run(fn, args) == [fn |-> fn.name, args |-> args]

\* Mutant: an unknown URI yields no contents instead of an error.
read_resource_no_raise(uri, raises) ==
    LET r == get_resource(resource_manager, uri)
    IN IF ~r.found
           THEN [outcome |-> "ok", message |-> "", runs |-> <<>>, sends |-> <<>>,
                 raised_by |-> "none"]
       ELSE IF raises
           THEN [outcome |-> "ResourceError", message |-> "str(e)",
                 runs |-> <<Run(r.fn, r.params)>>, sends |-> <<>>,
                 raised_by |-> "FastMCP.read_resource"]
       ELSE [outcome |-> "ok", message |-> "", runs |-> <<Run(r.fn, r.params)>>,
             sends |-> <<>>, raised_by |-> "none"]

\* Mutant: what the resource's function raises is not caught.
read_resource_uncaught(uri, raises) ==
    LET r == get_resource(resource_manager, uri)
    IN IF ~r.found
           THEN [outcome |-> "ResourceError", message |-> "Unknown resource",
                 runs |-> <<>>, sends |-> <<>>, raised_by |-> "FastMCP.read_resource"]
       ELSE IF raises
           THEN [outcome |-> "Exception", message |-> "str(e)",
                 runs |-> <<Run(r.fn, r.params)>>, sends |-> <<>>,
                 raised_by |-> r.fn.name]
       ELSE [outcome |-> "ok", message |-> "", runs |-> <<Run(r.fn, r.params)>>,
             sends |-> <<>>, raised_by |-> "none"]

\* FastMCP.read_resource(uri); raises tells whether the user function raises
read_resource(uri, raises) ==
    LET r == get_resource(resource_manager, uri)
    IN IF ~r.found
           THEN [outcome |-> "ResourceError", message |-> "Unknown resource",
                 runs |-> <<>>, sends |-> <<>>, raised_by |-> "FastMCP.read_resource"]
       ELSE IF raises
           THEN [outcome |-> "ResourceError", message |-> "str(e)",
                 runs |-> <<Run(r.fn, r.params)>>, sends |-> <<>>,
                 raised_by |-> "FastMCP.read_resource"]
       ELSE [outcome |-> "ok", message |-> "", runs |-> <<Run(r.fn, r.params)>>,
             sends |-> <<>>, raised_by |-> "none"]

ReadUris == {U_items_42, U_items_, U_data}

\* a read_resource request served by the facade
ReadResource(uri, raises) ==
    /\ phase = "constructed"
    /\ last' = [op |-> "read_resource", uri |-> uri] @@ read_resource(uri, raises)
    /\ UNCHANGED <<serverVars, regVars, httpVars, request_ctx, liveVars, normVars>>

(***************************************************************************)
(* The request context.                                                    *)
(***************************************************************************)
Sessions == {"s1", "s2"}

\* request metadata: absent, without a progress token, with one
Metas == {[present |-> FALSE],
          [present |-> TRUE, progressToken |-> "None"],
          [present |-> TRUE, progressToken |-> "tok"]}

\* the RequestContext the low-level server sets for the task serving a request
RequestContext(id, session, meta) ==
    [present |-> TRUE, request_id |-> id, session |-> session, meta |-> meta]

\* the low-level server starts to serve a request on a task
BeginRequest(k, session, meta) ==
    /\ phase = "constructed"
    /\ ~request_ctx[k].present
    /\ ~inflight[k].active
    /\ session \notin closed
    /\ request_ctx' = [request_ctx EXCEPT ![k] = RequestContext(k, session, meta)]
    /\ last' = [op |-> "begin_request", task |-> k]
    /\ UNCHANGED <<serverVars, regVars, httpVars, liveVars, normVars>>

\* the request ends and its context is reset
EndRequest(k) ==
    /\ request_ctx[k].present
    /\ ~inflight[k].active
    /\ request_ctx' = [request_ctx EXCEPT ![k] = NoRequest]
    /\ last' = [op |-> "end_request", task |-> k]
    /\ UNCHANGED <<serverVars, regVars, httpVars, liveVars, normVars>>

\* Mutant: the request context is looked up in one place shared by all tasks.
get_context_shared(k) == [request_context |-> request_ctx["task1"], fastmcp |-> TRUE]

\* FastMCP.get_context() called on task k
get_context(k) == [request_context |-> request_ctx[k], fastmcp |-> TRUE]

\* Context() built with neither a request context nor a server
BareContext == [request_context |-> NoRequest, fastmcp |-> FALSE]

Unavailable ==
    [outcome |-> "ValueError", message |-> "Context is not available outside of a request",
     runs |-> <<>>, sends |-> <<>>]

Done(sends) == [outcome |-> "ok", message |-> "", runs |-> <<>>, sends |-> sends]

LogMethods == {"log", "debug", "info", "warning", "error"}
ContextMethods == {"report_progress", "read_resource", "elicit"} \cup LogMethods

\* Mutant: a notification goes out whether or not the request carried a token.
report_progress_no_token_check(ctx) ==
    IF ~ctx.request_context.present THEN Unavailable
    ELSE LET rc == ctx.request_context
             progress_token == IF rc.meta.present THEN rc.meta.progressToken ELSE "None"
         IN Done(<<[kind |-> "progress", session |-> rc.session,
                    progress_token |-> progress_token]>>)

\* Context.report_progress
report_progress(ctx) ==
    IF ~ctx.request_context.present THEN Unavailable
    ELSE LET rc == ctx.request_context
             progress_token == IF rc.meta.present THEN rc.meta.progressToken ELSE "None"
         IN IF progress_token = "None" THEN Done(<<>>)
            ELSE Done(<<[kind |-> "progress", session |-> rc.session,
                         progress_token |-> progress_token]>>)

\* Context.log and its wrappers debug / info / warning / error
log(ctx, level) ==
    IF ~ctx.request_context.present THEN Unavailable
    ELSE Done(<<[kind |-> "log", session |-> ctx.request_context.session, level |-> level,
                 related_request_id |-> ctx.request_context.request_id]>>)

\* Context.elicit: the elicitation request goes out on the request's session
elicit(ctx) ==
    IF ~ctx.request_context.present THEN Unavailable
    ELSE Done(<<[kind |-> "elicit", session |-> ctx.request_context.session,
                 related_request_id |-> ctx.request_context.request_id]>>)

\* Context.read_resource
context_read_resource(ctx, uri, raises) ==
    IF ~ctx.fastmcp
        THEN [outcome |-> "AssertionError",
              message |-> "Context is not available outside of a request",
              runs |-> <<>>, sends |-> <<>>]
        ELSE read_resource(uri, raises)

\* a capability method of ctx
ContextMethod(ctx, method, uri, raises) ==
    CASE method = "report_progress" -> report_progress(ctx)
      [] method = "read_resource" -> context_read_resource(ctx, uri, raises)
      [] method = "elicit" -> elicit(ctx)
      [] method = "log" -> log(ctx, "info")
      [] method \in LogMethods \ {"log"} -> log(ctx, method)

\* code running on task k obtains a context from get_context() and calls a method
ContextCall(k, method, uri, raises) ==
    /\ phase = "constructed"
    /\ last' = [op |-> "context", task |-> k, method |-> method, from |-> "get_context",
                in_request |-> request_ctx[k].present]
               @@ ContextMethod(get_context(k), method, uri, raises)
    /\ UNCHANGED <<serverVars, regVars, httpVars, request_ctx, liveVars, normVars>>

\* code outside any request builds a Context itself and calls a method
BareContextCall(method, uri, raises) ==
    /\ phase = "constructed"
    /\ last' = [op |-> "context", task |-> "main", method |-> method, from |-> "Context",
                in_request |-> FALSE]
               @@ ContextMethod(BareContext, method, uri, raises)
    /\ UNCHANGED <<serverVars, regVars, httpVars, request_ctx, liveVars, normVars>>

(***************************************************************************)
(* Calling tools. ToolManager.call_tool is not part of the source at hand; *)
(* it is modelled from the specification: the name is looked up, the       *)
(* arguments are validated against the tool's declared input shape before  *)
(* the function runs, and the function's return value is handed back.      *)
(***************************************************************************)
NoArguments == <<>>
Arguments == {NoArguments, S_x :> "hi"}
ReturnValues ==
    {PyNone, PyStr("hi"), TextContent("hi"), PyList(<<PyInt(42), PyTuple(<<Image("px")>>)>>)}

\* the arguments fit the function's declared parameters
ValidArguments(fn, arguments) == DOMAIN arguments = fn.params

\* ToolManager.call_tool(name, arguments, context); ret and raises are what the
\* user function does when it runs
tool_manager_call_tool(tm, name, arguments, context, ret, raises) ==
    IF ~HasKey(tm.entries, name)
        THEN [outcome |-> "ToolError", condition |-> "not_found",
              message |-> "Unknown tool", runs |-> <<>>,
              result |-> PyNone, content |-> <<>>]
    ELSE LET fn == tm.entries[IndexOf(tm.entries, name)].fn
         IN IF ~ValidArguments(fn, arguments)
                THEN [outcome |-> "ToolError", condition |-> "invalid_arguments",
                      message |-> "invalid arguments",
                      runs |-> <<>>, result |-> PyNone, content |-> <<>>]
            ELSE IF raises
                THEN [outcome |-> "ToolError", condition |-> "handler_failure",
                      message |-> "str(e)",
                      runs |-> <<Run(fn, arguments)>>, result |-> PyNone, content |-> <<>>]
            ELSE [outcome |-> "ok", condition |-> "none", message |-> "",
                  runs |-> <<Run(fn, arguments)>>,
                  result |-> ret, content |-> <<>>]

\* Mutant: a result that already is a list is returned as it is.
call_tool_list_as_is(k, name, arguments, ret, raises) ==
    LET context == get_context(k)
        r == tool_manager_call_tool(tool_manager, name, arguments, context, ret, raises)
    IN IF r.outcome # "ok" THEN r
       ELSE [r EXCEPT !.content = IF r.result.t = "list" THEN r.result.items
                                  ELSE _convert_to_content(r.result)]

\* FastMCP.call_tool(name, arguments) running on task k: what the tool manager
\* raises passes through as it is
call_tool(k, name, arguments, ret, raises) ==
    LET context == get_context(k)
        r == tool_manager_call_tool(tool_manager, name, arguments, context, ret, raises)
    IN IF r.outcome # "ok" THEN [raised_by |-> "ToolManager.call_tool"] @@ r
       ELSE [raised_by |-> "none"] @@ [r EXCEPT !.content = _convert_to_content(r.result)]

\* a call_tool request served by the facade on task k
CallTool(k, name, arguments, ret, raises) ==
    /\ phase = "constructed"
    /\ last' = [op |-> "call_tool", task |-> k, name |-> name, arguments |-> arguments,
                context |-> get_context(k)]
               @@ call_tool(k, name, arguments, ret, raises)
    /\ UNCHANGED <<serverVars, regVars, httpVars, request_ctx, liveVars, normVars>>

(***************************************************************************)
(* Getting prompts. PromptManager.render_prompt is not part of the source  *)
(* at hand; it is modelled from the specification: an unknown name, a      *)
(* failed validation of the arguments and a failure of the prompt's        *)
(* function are three conditions, the last one carrying the function's     *)
(* message.                                                                *)
(***************************************************************************)
UnknownPromptMessage == "Unknown prompt"
InvalidArgumentsMessage == "invalid arguments"

\* what a prompt function does when it runs: return, or raise with a message
NoException == "None"
HandlerMessages == {"boom", InvalidArgumentsMessage}

\* PromptManager.render_prompt(name, arguments); exc is what the function does
render_prompt(pm, name, arguments, exc) ==
    IF ~HasKey(pm.entries, name)
        THEN [raised |-> TRUE, condition |-> "not_found",
              message |-> UnknownPromptMessage, runs |-> <<>>]
    ELSE LET fn == pm.entries[IndexOf(pm.entries, name)].fn
         IN IF ~ValidArguments(fn, arguments)
                THEN [raised |-> TRUE, condition |-> "invalid_arguments",
                      message |-> InvalidArgumentsMessage, runs |-> <<>>]
            ELSE IF exc # NoException
                THEN [raised |-> TRUE, condition |-> "handler_failure",
                      message |-> exc, runs |-> <<Run(fn, arguments)>>]
            ELSE [raised |-> FALSE, condition |-> "none", message |-> "",
                  runs |-> <<Run(fn, arguments)>>]

\* FastMCP.get_prompt(name, arguments): every exception is caught and raised
\* again as ValueError(str(e)), so of the condition only the message is left;
\* cause records what happened
get_prompt(name, arguments, exc) ==
    LET r == render_prompt(prompt_manager, name, arguments, exc)
    IN IF r.raised
           THEN [outcome |-> "ValueError", condition |-> "none", message |-> r.message,
                 runs |-> r.runs, cause |-> r.condition,
                 raised_by |-> "FastMCP.get_prompt"]
           ELSE [outcome |-> "ok", condition |-> "none", message |-> "", runs |-> r.runs,
                 cause |-> "none", raised_by |-> "none"]

\* a get_prompt request served by the facade
GetPrompt(name, arguments, exc) ==
    /\ phase = "constructed"
    /\ last' = [op |-> "get_prompt", name |-> name, arguments |-> arguments]
               @@ get_prompt(name, arguments, exc)
    /\ UNCHANGED <<serverVars, regVars, httpVars, request_ctx, liveVars, normVars>>

(***************************************************************************)
(* A tool call whose function awaits: between the moment call_tool hands   *)
(* the function its context and the moment the function returns, the       *)
(* function calls methods of that context, and other requests run. The     *)
(* client's reply to an elicitation and the closing of a session are the   *)
(* session's business, which is not part of the source at hand; they are   *)
(* modelled from the specification: an outstanding elicitation is resolved *)
(* by the client's reply, or as cancelled when its session closes.         *)
(***************************************************************************)
\* FastMCP.call_tool on task k, up to where the tool's function is running with
\* the context call_tool made for it
CallToolStart(k, name, arguments) ==
    /\ phase = "constructed"
    /\ ~inflight[k].active
    /\ HasKey(tool_manager.entries, name)
    /\ ValidArguments(tool_manager.entries[IndexOf(tool_manager.entries, name)].fn, arguments)
    /\ inflight' = [inflight EXCEPT ![k] =
                      [active |-> TRUE, name |-> name, arguments |-> arguments,
                       context |-> get_context(k), progress_calls |-> 0,
                       progress_sent |-> 0, awaiting |-> "none", reply |-> "none",
                       reply_from |-> "none"]]
    /\ last' = [op |-> "call_tool_start", task |-> k, name |-> name]
    /\ UNCHANGED <<serverVars, regVars, httpVars, request_ctx, closed, connections, normVars>>

\* the function running on task k calls report_progress or a logging method of
\* its context
HandlerContextCall(k, method) ==
    LET call == inflight[k]
        r == ContextMethod(call.context, method, U_data, FALSE)
        progress == method = "report_progress"
    IN /\ call.active
       /\ call.awaiting = "none"
       /\ method \in {"report_progress"} \cup LogMethods
       /\ progress => call.progress_calls < MaxCalls
       /\ inflight' = [inflight EXCEPT
                         ![k].progress_calls = IF progress THEN @ + 1 ELSE @,
                         ![k].progress_sent = IF progress THEN @ + Len(r.sends) ELSE @]
       /\ last' = [op |-> "handler_context", task |-> k, method |-> method,
                   context |-> call.context] @@ r
       /\ UNCHANGED <<serverVars, regVars, httpVars, request_ctx, closed, connections, normVars>>

\* the function running on task k calls elicit: the request goes out and the
\* function is suspended, unless the context is unavailable; on a session
\* that has closed already the elicitation is resolved as cancelled at once
HandlerElicit(k) ==
    LET call == inflight[k]
        r == elicit(call.context)
        gone == r.outcome = "ok" /\ call.context.request_context.session \in closed
    IN /\ call.active
       /\ call.awaiting = "none"
       /\ inflight' = [inflight EXCEPT
                         ![k].awaiting = IF r.outcome = "ok" THEN "elicit" ELSE @,
                         ![k].reply = IF gone THEN "cancel" ELSE @,
                         ![k].reply_from = IF gone THEN "close" ELSE @]
       /\ last' = [op |-> "elicit", task |-> k, suspended |-> r.outcome = "ok"] @@ r
       /\ UNCHANGED <<serverVars, regVars, httpVars, request_ctx, closed, connections, normVars>>

ElicitActions == {"accept", "decline", "cancel"}

\* the client answers the elicitation outstanding on task k
ClientReply(k, action) ==
    LET call == inflight[k]
    IN /\ call.active
       /\ call.awaiting = "elicit"
       /\ call.reply = "none"
       /\ call.context.request_context.session \notin closed
       /\ inflight' = [inflight EXCEPT ![k].reply = action, ![k].reply_from = "client"]
       /\ last' = [op |-> "client_reply", task |-> k, action |-> action]
       /\ UNCHANGED <<serverVars, regVars, httpVars, request_ctx, closed, connections, normVars>>

\* Mutant: a closing session leaves its outstanding elicitations as they are.
SessionCloseNoCancel(s) ==
    /\ phase = "constructed"
    /\ s \notin closed
    /\ closed' = closed \cup {s}
    /\ last' = [op |-> "session_close", session |-> s]
    /\ UNCHANGED <<serverVars, regVars, httpVars, request_ctx, inflight, connections, normVars>>

\* the transport of session s closes: every elicitation outstanding on s that
\* has no reply yet is resolved as cancelled
SessionClose(s) ==
    /\ phase = "constructed"
    /\ s \notin closed
    /\ closed' = closed \cup {s}
    /\ inflight' =
         [k \in Tasks |->
            IF /\ inflight[k].active
               /\ inflight[k].awaiting = "elicit"
               /\ inflight[k].reply = "none"
               /\ inflight[k].context.request_context.session = s
                THEN [inflight[k] EXCEPT !.reply = "cancel", !.reply_from = "close"]
                ELSE inflight[k]]
    /\ last' = [op |-> "session_close", session |-> s]
    /\ UNCHANGED <<serverVars, regVars, httpVars, request_ctx, connections, normVars>>

\* Context.elicit returns what the elicitation resolved to, and the function
\* on task k goes on
ElicitReturn(k) ==
    LET call == inflight[k]
    IN /\ call.active
       /\ call.awaiting = "elicit"
       /\ call.reply # "none"
       /\ inflight' = [inflight EXCEPT ![k].awaiting = "none", ![k].reply = "none",
                                       ![k].reply_from = "none"]
       /\ last' = [op |-> "elicit_return", task |-> k, outcome |-> "ok",
                   action |-> call.reply, reply_from |-> call.reply_from]
       /\ UNCHANGED <<serverVars, regVars, httpVars, request_ctx, closed, connections, normVars>>

\* the function running on task k returns or raises, and call_tool finishes
CallToolFinish(k, ret, raises) ==
    LET call == inflight[k]
    IN /\ call.active
       /\ call.awaiting = "none"
       /\ inflight' = [inflight EXCEPT ![k] = NoCall]
       /\ last' = [op |-> "call_tool", task |-> k, name |-> call.name,
                   arguments |-> call.arguments, context |-> call.context]
                  @@ call_tool(k, call.name, call.arguments, ret, raises)
       /\ UNCHANGED <<serverVars, regVars, httpVars, request_ctx, closed, connections, normVars>>

(***************************************************************************)
(* The HTTP apps. A route is a record: the entry point it serves, whether  *)
(* its endpoint is wrapped in RequireAuthMiddleware and, if so, with which *)
(* scopes and metadata URL. The path settings are left out.                *)
(***************************************************************************)
Plain(kind) ==
    [kind |-> kind, require_auth |-> FALSE, required_scopes |-> {},
     resource_metadata_url |-> "None"]

\* RequireAuthMiddleware(app, required_scopes, resource_metadata_url)
RequireAuthMiddleware(kind, required_scopes, resource_metadata_url) ==
    [kind |-> kind, require_auth |-> TRUE, required_scopes |-> required_scopes,
     resource_metadata_url |-> resource_metadata_url]

\* create_auth_routes(provider, ...): the authorization server's endpoints
create_auth_routes == <<Plain("authorize"), Plain("token")>>

\* the protected-resource metadata route
protected_resource_route == Plain("protected_resource_metadata")

\* the middleware list both builders make
AuthMiddleware ==
    IF settings.auth.present /\ token_verifier # "None"
        THEN <<"AuthenticationMiddleware", "AuthContextMiddleware">>
        ELSE <<>>

\* the resource metadata URL both builders compute
ResourceMetadataUrl ==
    IF settings.auth.present /\ settings.auth.resource_server_url
        THEN "/.well-known/oauth-protected-resource"
        ELSE "None"

RequiredScopes == IF settings.auth.present THEN settings.auth.required_scopes ELSE {}

AuthRoutes ==
    IF settings.auth.present /\ auth_server_provider THEN create_auth_routes ELSE <<>>

\* Mutant: the metadata route is wrapped in the requirement stage.
ProtectedResourceRoutesWrapped ==
    IF settings.auth.present /\ settings.auth.resource_server_url
        THEN <<RequireAuthMiddleware("protected_resource_metadata", RequiredScopes,
                                     ResourceMetadataUrl)>>
        ELSE <<>>

\* the protected-resource metadata routes both builders add
ProtectedResourceRoutes ==
    IF settings.auth.present /\ settings.auth.resource_server_url
        THEN <<protected_resource_route>>
        ELSE <<>>

\* Mutant: the message endpoint is mounted without the requirement wrapper.
sse_app_routes_message_open ==
    AuthRoutes
    \o (IF token_verifier # "None"
            THEN <<RequireAuthMiddleware("sse", RequiredScopes, ResourceMetadataUrl),
                   Plain("message")>>
            ELSE <<Plain("sse"), Plain("message")>>)
    \o ProtectedResourceRoutes
    \o custom_starlette_routes

\* FastMCP.sse_app: the route list
sse_app_routes ==
    AuthRoutes
    \o (IF token_verifier # "None"
            THEN <<RequireAuthMiddleware("sse", RequiredScopes, ResourceMetadataUrl),
                   RequireAuthMiddleware("message", RequiredScopes, ResourceMetadataUrl)>>
            ELSE <<Plain("sse"), Plain("message")>>)
    \o ProtectedResourceRoutes
    \o custom_starlette_routes

\* Route(path, endpoint=func, methods=methods, ...) as custom_route makes it
CustomRoute(path, methods, func) ==
    [path |-> path, methods |-> methods, endpoint |-> func] @@ Plain("custom")

\* FastMCP.custom_route(path, methods) applied to func
custom_route(path, methods, func) ==
    /\ phase = "constructed"
    /\ Len(custom_starlette_routes) < MaxRoutes
    /\ custom_starlette_routes' =
          Append(custom_starlette_routes, CustomRoute(path, methods, func))
    /\ last' = [op |-> "custom_route", path |-> path, methods |-> methods, endpoint |-> func]
    /\ UNCHANGED <<serverVars, regVars, session_manager, apps, request_ctx, liveVars, normVars>>

\* Mutant: the custom routes are put in front of the built-in ones.
streamable_http_app_routes_custom_first ==
    custom_starlette_routes
    \o AuthRoutes
    \o (IF token_verifier # "None"
            THEN <<RequireAuthMiddleware("streamable_http", RequiredScopes, ResourceMetadataUrl)>>
            ELSE <<Plain("streamable_http")>>)
    \o ProtectedResourceRoutes

\* FastMCP.streamable_http_app: the route list
streamable_http_app_routes ==
    AuthRoutes
    \o (IF token_verifier # "None"
            THEN <<RequireAuthMiddleware("streamable_http", RequiredScopes, ResourceMetadataUrl)>>
            ELSE <<Plain("streamable_http")>>)
    \o ProtectedResourceRoutes
    \o custom_starlette_routes

\* FastMCP.sse_app()
sse_app ==
    /\ phase = "constructed"
    /\ apps' = [apps EXCEPT !.sse = [built |-> TRUE, routes |-> sse_app_routes,
                                     middleware |-> AuthMiddleware]]
    /\ last' = [op |-> "sse_app"]
    /\ UNCHANGED <<serverVars, regVars, custom_starlette_routes, session_manager,
                   request_ctx, liveVars, normVars>>

\* StreamableHTTPSessionManager(app=self._mcp_server, ...): a new manager object;
\* serial tells the managers made for one server apart
StreamableHTTPSessionManager(old) ==
    [present |-> TRUE, app |-> "_mcp_server",
     serial |-> IF old.present THEN old.serial + 1 ELSE 1]

\* Mutant: every call makes a new manager.
session_manager_on_call_always == StreamableHTTPSessionManager(session_manager)

\* FastMCP.streamable_http_app: create the session manager on the first call
session_manager_on_call ==
    IF ~session_manager.present
        THEN StreamableHTTPSessionManager(session_manager)
        ELSE session_manager

\* FastMCP.streamable_http_app()
streamable_http_app ==
    /\ phase = "constructed"
    /\ session_manager' = session_manager_on_call
    /\ apps' = [apps EXCEPT !.streamable_http =
                  [built |-> TRUE, routes |-> streamable_http_app_routes,
                   middleware |-> AuthMiddleware]]
    /\ last' = [op |-> "streamable_http_app", created |-> ~session_manager.present]
    /\ UNCHANGED <<serverVars, regVars, custom_starlette_routes, request_ctx, liveVars, normVars>>

\* the FastMCP.session_manager property
session_manager_property ==
    /\ phase = "constructed"
    /\ last' = IF ~session_manager.present
                   THEN [op |-> "session_manager", outcome |-> "RuntimeError",
                         manager |-> NoSessionManager]
                   ELSE [op |-> "session_manager", outcome |-> "ok",
                         manager |-> session_manager]
    /\ UNCHANGED <<serverVars, regVars, httpVars, request_ctx, liveVars, normVars>>

(***************************************************************************)
(* The stdio and SSE adapters. run_stdio_async and handle_sse have the     *)
(* same shape: an async with block that opens the connection's pair of     *)
(* streams, and in it one awaited run of the protocol loop over that pair. *)
(* The block is left when the run-loop returns and when it raises. What    *)
(* stdio_server and connect_sse do on leaving is not part of the source at *)
(* hand; from the specification, they release both streams.                *)
(***************************************************************************)
\* async with stdio_server() / sse.connect_sse(...) entered: one pair of streams
Connect(c) ==
    /\ phase = "constructed"
    /\ c # "stdio" => apps.sse.built
    /\ connections[c].state = "none"
    /\ connections' = [connections EXCEPT ![c] =
                          [@ EXCEPT !.state = "open", !.pairs = @ + 1,
                                    !.read_stream = "open", !.write_stream = "open"]]
    /\ last' = [op |-> "connect", connection |-> c]
    /\ UNCHANGED <<serverVars, regVars, httpVars, request_ctx, inflight, closed, normVars>>

\* await self._mcp_server.run(read_stream, write_stream, ...) begins
RunLoopStart(c) ==
    /\ connections[c].state = "open"
    /\ connections' = [connections EXCEPT ![c] =
                          [@ EXCEPT !.state = "running", !.run_loops = @ + 1]]
    /\ last' = [op |-> "run", connection |-> c,
                read_stream |-> connections[c].read_stream,
                write_stream |-> connections[c].write_stream]
    /\ UNCHANGED <<serverVars, regVars, httpVars, request_ctx, inflight, closed, normVars>>

RunLoopEnds == {"returned", "raised"}

\* the run-loop ends: it returns when the connection is closed, or it raises
RunLoopEnd(c, how) ==
    /\ connections[c].state = "running"
    /\ connections' = [connections EXCEPT ![c] = [@ EXCEPT !.state = "ended", !.ended = how]]
    /\ last' = [op |-> "run_end", connection |-> c, how |-> how]
    /\ UNCHANGED <<serverVars, regVars, httpVars, request_ctx, inflight, closed, normVars>>

\* Mutant: the streams are released only after a run-loop that returned.
ReleaseOnReturn(c) ==
    /\ connections[c].state = "ended"
    /\ connections[c].ended = "returned"
    /\ connections' = [connections EXCEPT ![c] =
                          [@ EXCEPT !.state = "released",
                                    !.read_stream = "closed", !.write_stream = "closed"]]
    /\ last' = [op |-> "release", connection |-> c, outcome |-> "ok"]
    /\ UNCHANGED <<serverVars, regVars, httpVars, request_ctx, inflight, closed, normVars>>

\* the async with block is left, normally or by the exception passing through
Release(c) ==
    /\ connections[c].state = "ended"
    /\ connections' = [connections EXCEPT ![c] =
                          [@ EXCEPT !.state = "released",
                                    !.read_stream = "closed", !.write_stream = "closed"]]
    /\ last' = [op |-> "release", connection |-> c,
                outcome |-> IF connections[c].ended = "raised" THEN "raised" ELSE "ok"]
    /\ UNCHANGED <<serverVars, regVars, httpVars, request_ctx, inflight, closed, normVars>>

(***************************************************************************)
(* One HTTP request through an app. The bearer backend, the token verifier *)
(* and RequireAuthMiddleware are not part of the source at hand; they are  *)
(* modelled from the specification: verification fills the identity slot   *)
(* without rejecting, the requirement stage rejects a request that has no  *)
(* identity (unauthorized) or lacks a required scope (forbidden).          *)
(***************************************************************************)
Tokens == {"none", "invalid", "tok_read", "tok_noscope"}

Anonymous == [authenticated |-> FALSE, scopes |-> {}]

\* TokenVerifier.verify_token
verify_token(token) ==
    CASE token = "tok_read" -> [authenticated |-> TRUE, scopes |-> {"read"}]
      [] token = "tok_noscope" -> [authenticated |-> TRUE, scopes |-> {}]
      [] OTHER -> Anonymous

\* AuthenticationMiddleware with BearerAuthBackend: the identity slot
Authenticate(middleware, token) ==
    IF \E i \in 1..Len(middleware) : middleware[i] = "AuthenticationMiddleware"
        THEN verify_token(token)
        ELSE Anonymous

\* RequireAuthMiddleware.__call__: the status it answers with, 200 when it
\* hands the request on
Require(route, user) ==
    IF ~route.require_auth THEN 200
    ELSE IF ~user.authenticated THEN 401
    ELSE IF ~(route.required_scopes \subseteq user.scopes) THEN 403
    ELSE 200

TransportEntryPoints == {"sse", "message", "streamable_http"}

\* a request with the given bearer token for route i of an app
HttpRequest(name, i, token) ==
    LET app == apps[name]
        route == app.routes[i]
        user == Authenticate(app.middleware, token)
        status == Require(route, user)
    IN /\ app.built
       /\ i \in 1..Len(app.routes)
       /\ last' = [op |-> "http", app |-> name, route |-> route, token |-> token,
                   user |-> user, status |-> status,
                   challenge |-> IF status = 200 THEN "None" ELSE route.resource_metadata_url,
                   endpoint_ran |-> status = 200]
       /\ UNCHANGED <<serverVars, regVars, httpVars, request_ctx, liveVars, normVars>>

(***************************************************************************)
(* Routing. The router is Starlette's and not part of the source at hand;  *)
(* it is modelled as it is documented: the routes are tried in list order  *)
(* and the first one that matches path and method serves the request. The  *)
(* built-in routes are at the paths of the default settings.               *)
(***************************************************************************)
HttpMethods == {"GET", "POST"}

\* the path a route is mounted at
RoutePath(route) ==
    CASE route.kind = "custom" -> route.path
      [] route.kind = "sse" -> "/sse"
      [] route.kind = "message" -> "/messages/"
      [] route.kind = "streamable_http" -> "/mcp"
      [] route.kind = "protected_resource_metadata" -> "/.well-known/oauth-protected-resource"
      [] route.kind = "authorize" -> "/authorize"
      [] route.kind = "token" -> "/token"

\* the methods a route answers: a Mount answers all, a Route its methods
RouteMethods(route) ==
    CASE route.kind = "custom" -> route.methods
      [] route.kind = "sse" -> {"GET"}
      [] route.kind = "message" -> HttpMethods
      [] route.kind = "streamable_http" -> HttpMethods
      [] route.kind = "protected_resource_metadata" -> {"GET", "OPTIONS"}
      [] route.kind = "authorize" -> {"GET", "POST"}
      [] route.kind = "token" -> {"POST"}

Matches(route, path, method) == RoutePath(route) = path /\ method \in RouteMethods(route)

\* Router: the index of the first route that matches, 0 if none does
Dispatch(routes, path, method) ==
    LET hits == {i \in 1..Len(routes) : Matches(routes[i], path, method)}
    IN IF hits = {} THEN 0 ELSE CHOOSE i \in hits : \A j \in hits : i <= j

\* a request for a path of an app, served by the route the router picks
RouteRequest(name, path, method) ==
    LET app == apps[name]
        i == Dispatch(app.routes, path, method)
    IN /\ app.built
       /\ last' = [op |-> "route", app |-> name, path |-> path, method |-> method,
                   index |-> i,
                   served_by |-> IF i = 0 THEN "404"
                                 ELSE IF app.routes[i].kind = "custom"
                                     THEN app.routes[i].endpoint
                                 ELSE app.routes[i].kind]
       /\ UNCHANGED <<serverVars, regVars, httpVars, request_ctx, liveVars, normVars>>

(***************************************************************************)
(* Normalization of one handler return value, and of its own output.       *)
(***************************************************************************)
InitNorm ==
    /\ ServerInit
    /\ result \in Values
    /\ converted = Pending
    /\ reconverted = Pending

Convert ==
    /\ ~converted.done
    /\ converted' = [done |-> TRUE, blocks |-> _convert_to_content(result)]
    /\ UNCHANGED <<serverVars, regVars, httpVars, request_ctx, liveVars, last, result, reconverted>>

\* The returned Python list of blocks, handed to the normalizer again.
Reconvert ==
    /\ converted.done
    /\ ~reconverted.done
    /\ reconverted' = [done |-> TRUE, blocks |-> _convert_to_content(PyList(converted.blocks))]
    /\ UNCHANGED <<serverVars, regVars, httpVars, request_ctx, liveVars, last, result, converted>>

NextNorm == Convert \/ Reconvert

SpecNorm == InitNorm /\ [][NextNorm]_vars

Init == ServerInit /\ NormIdle

(***************************************************************************)
(* The registries: construction with the warning flags, then registrations.*)
(***************************************************************************)
WarnFlags == {<<TRUE, TRUE, TRUE>>, <<TRUE, FALSE, TRUE>>, <<FALSE, TRUE, FALSE>>}

RegUris == {U_items_id, U_id_42, U_items_42}

NextReg ==
    \/ \E w \in WarnFlags : Construct(NoAuth, FALSE, FALSE, w[1], w[2], w[3])
    \/ \E fn \in ToolFns, name \in ToolNames : add_tool(fn, name)
    \/ \E fn \in PromptFns, name \in PromptNames : prompt(fn, name)
    \/ \E uri \in RegUris, fn \in ResourceFns : resource(uri, fn)

SpecReg == Init /\ [][NextReg]_vars

(***************************************************************************)
(* Resources: registrations, reads, and the context's methods inside and   *)
(* outside a request.                                                      *)
(***************************************************************************)
ReadFns == {get_data, get_item, find_item}

NextRead ==
    \/ Construct(NoAuth, FALSE, FALSE, TRUE, TRUE, TRUE)
    \/ \E uri \in ResourceUris, fn \in ReadFns : resource(uri, fn)
    \/ \E uri \in ReadUris, raises \in BOOLEAN : ReadResource(uri, raises)
    \/ \E session \in Sessions, meta \in Metas : BeginRequest("task1", session, meta)
    \/ EndRequest("task1")
    \/ \E k \in {"main", "task1"}, method \in ContextMethods \ {"read_resource"} :
          ContextCall(k, method, U_data, FALSE)
    \/ \E k \in {"main", "task1"}, uri \in ReadUris, raises \in BOOLEAN :
          ContextCall(k, "read_resource", uri, raises)
    \/ \E method \in ContextMethods : BareContextCall(method, U_items_42, FALSE)

SpecRead == Init /\ [][NextRead]_vars

(***************************************************************************)
(* Tools: registrations and calls, inside and outside a request.           *)
(***************************************************************************)
CallNames == ToolNames \cup {"missing"}

Next ==
    \/ Construct(NoAuth, FALSE, FALSE, TRUE, TRUE, TRUE)
    \/ \E fn \in ToolFns, name \in ToolNames : add_tool(fn, name)
    \/ \E session \in Sessions, meta \in Metas : BeginRequest("task1", session, meta)
    \/ EndRequest("task1")
    \/ \E k \in {"main", "task1"}, name \in CallNames, arguments \in Arguments,
          ret \in ReturnValues, raises \in BOOLEAN :
          CallTool(k, name, arguments, ret, raises)

Spec == Init /\ [][Next]_vars

(***************************************************************************)
(* HTTP: construction with every auth wiring, the two apps, requests.      *)
(***************************************************************************)
AuthConfigs ==
    {NoAuth} \cup {AuthSettings(scopes, rs) : scopes \in {{}, {"read"}}, rs \in BOOLEAN}

NextHttp ==
    \/ \E auth \in AuthConfigs, provider \in BOOLEAN, verifier \in BOOLEAN :
          Construct(auth, provider, verifier, TRUE, TRUE, TRUE)
    \/ sse_app
    \/ streamable_http_app
    \/ session_manager_property
    \/ \E name \in {"sse", "streamable_http"}, token \in Tokens :
          \E i \in 1..Len(apps[name].routes) : HttpRequest(name, i, token)

SpecHttp == Init /\ [][NextHttp]_vars

(***************************************************************************)
(* Connections: the stdio pipe and two SSE clients, each with its own      *)
(* run-loop. Once a run-loop has ended its coroutine goes on, so leaving   *)
(* the async with block is weakly fair; nothing makes a connection end.    *)
(***************************************************************************)
NextConn ==
    \/ Construct(NoAuth, FALSE, FALSE, TRUE, TRUE, TRUE)
    \/ sse_app
    \/ \E c \in Connections : Connect(c)
    \/ \E c \in Connections : RunLoopStart(c)
    \/ \E c \in Connections, how \in RunLoopEnds : RunLoopEnd(c, how)
    \/ \E c \in Connections : Release(c)

SpecConn ==
    /\ Init
    /\ [][NextConn]_vars
    /\ \A c \in Connections : WF_vars(Release(c))

(***************************************************************************)
(* Custom routes: registrations before and after the apps are built, some  *)
(* at the paths of built-in routes, and requests routed through the apps.  *)
(***************************************************************************)
CustomEndpoints == {"health_check", "shadow"}
CustomRegistrations ==
    {<<"/health", "health_check">>, <<"/sse", "shadow">>, <<"/mcp", "shadow">>}
RequestPaths == {"/health", "/sse", "/mcp", "/.well-known/oauth-protected-resource"}

NextRoutes ==
    \/ \E auth \in {NoAuth, AuthSettings({"read"}, TRUE)} :
          Construct(auth, auth.present, FALSE, TRUE, TRUE, TRUE)
    \/ \E reg \in CustomRegistrations : custom_route(reg[1], {"GET"}, reg[2])
    \/ sse_app
    \/ streamable_http_app
    \/ \E name \in {"sse", "streamable_http"}, path \in RequestPaths, method \in HttpMethods :
          RouteRequest(name, path, method)

SpecRoutes == Init /\ [][NextRoutes]_vars

(***************************************************************************)
(* Kinds of resources: URIs with a placeholder, without braces, and with   *)
(* braces that hold no placeholder, for functions with and without         *)
(* parameters.                                                             *)
(***************************************************************************)
KindUris == {U_items_id, U_items_42, U_items_braces, U_items_rev}

NextKind ==
    \/ Construct(NoAuth, FALSE, FALSE, TRUE, TRUE, TRUE)
    \/ \E uri \in KindUris, fn \in {get_data, get_item} : resource(uri, fn)

SpecKind == Init /\ [][NextKind]_vars

(***************************************************************************)
(* Concurrent requests: two tasks, each serving requests whose tool        *)
(* functions report progress and log while the other task runs.            *)
(***************************************************************************)
NextCtx ==
    \/ Construct(NoAuth, FALSE, FALSE, TRUE, TRUE, TRUE)
    \/ add_tool(echo, "echo")
    \/ \E k \in RequestTasks, session \in Sessions, meta \in Metas :
          BeginRequest(k, session, meta)
    \/ \E k \in RequestTasks : EndRequest(k)
    \/ \E k \in RequestTasks : CallToolStart(k, "echo", S_x :> "hi")
    \/ \E k \in RequestTasks, method \in {"report_progress", "log", "warning"} :
          HandlerContextCall(k, method)
    \/ \E k \in RequestTasks, raises \in BOOLEAN : CallToolFinish(k, PyStr("hi"), raises)

SpecCtx == Init /\ [][NextCtx]_vars

(***************************************************************************)
(* Elicitation: tool functions that elicit, clients that reply or stay     *)
(* silent, sessions that close. The one thing sure to happen is that a     *)
(* task which can go on does go on: the event loop resumes a function      *)
(* whose elicitation is resolved.                                          *)
(***************************************************************************)
NextElicit ==
    \/ Construct(NoAuth, FALSE, FALSE, TRUE, TRUE, TRUE)
    \/ add_tool(echo, "echo")
    \/ \E k \in RequestTasks, session \in Sessions :
          BeginRequest(k, session, [present |-> FALSE])
    \/ \E k \in RequestTasks : EndRequest(k)
    \/ \E k \in Tasks : CallToolStart(k, "echo", S_x :> "hi")
    \/ \E k \in Tasks : HandlerElicit(k)
    \/ \E k \in Tasks, action \in ElicitActions : ClientReply(k, action)
    \/ \E s \in Sessions : SessionClose(s)
    \/ \E k \in Tasks : ElicitReturn(k)
    \/ \E k \in Tasks : CallToolFinish(k, PyStr("hi"), FALSE)

SpecElicit ==
    /\ Init
    /\ [][NextElicit]_vars
    /\ \A k \in Tasks : WF_vars(ElicitReturn(k))

(***************************************************************************)
(* Failures: calls and reads of unknown names, with bad arguments, and     *)
(* with functions that raise.                                              *)
(***************************************************************************)
NextFail ==
    \/ Construct(NoAuth, FALSE, FALSE, TRUE, TRUE, TRUE)
    \/ add_tool(echo, "echo")
    \/ \E fn \in PromptFns : prompt(fn, "greet")
    \/ \E uri \in {U_items_id, U_items_42}, fn \in {get_data, get_item} : resource(uri, fn)
    \/ \E name \in CallNames, arguments \in Arguments, raises \in BOOLEAN :
          CallTool("main", name, arguments, PyStr("hi"), raises)
    \/ \E uri \in ReadUris, raises \in BOOLEAN : ReadResource(uri, raises)
    \/ \E name \in PromptNames \cup {"missing"}, arguments \in Arguments,
          exc \in {NoException} \cup HandlerMessages :
          GetPrompt(name, arguments, exc)

SpecFail == Init /\ [][NextFail]_vars

(***************************************************************************)
(* C4, C5: properties of the registries.                                   *)
(***************************************************************************)
UniqueKeys(keys) == \A i, j \in 1..Len(keys) : keys[i] = keys[j] => i = j

\* the entries of the registry a registration went to, and that registry's flag
EntriesOf(registry) ==
    CASE registry = "tools" -> tool_manager.entries
      [] registry = "prompts" -> prompt_manager.entries
      [] registry = "resources" -> resource_manager.resources
      [] registry = "templates" -> resource_manager.templates

DefaultMode(registry) ==
    CASE registry = "tools" -> settings.warn_on_duplicate_tools
      [] registry = "prompts" -> settings.warn_on_duplicate_prompts
      [] registry \in {"resources", "templates"} -> settings.warn_on_duplicate_resources

IsRegistration == last.op \in {"add_tool", "prompt", "resource"} /\ last.outcome = "ok"

\* C4: in every registry a key is listed once and resolves to at most one
\* entry; a registration under an existing key leaves exactly one entry for the
\* key, and with the registry's warning flag set (the default) it is warned of.
C4_UniqueKeys ==
    /\ UniqueKeys(list_tools)
    /\ UniqueKeys(list_resources)
    /\ UniqueKeys(list_resource_templates)
    /\ UniqueKeys(list_prompts)
    /\ \A registry \in {"tools", "prompts", "resources", "templates"} :
         \A i \in 1..Len(EntriesOf(registry)) :
            Cardinality(RegistryGet(EntriesOf(registry), EntriesOf(registry)[i].key)) = 1
    /\ IsRegistration =>
         /\ Cardinality(RegistryGet(EntriesOf(last.registry), last.key)) = 1
         /\ (last.duplicate /\ DefaultMode(last.registry)) => last.warned

\* A second tool was registered under an existing name in default mode.
C4_Witness ==
    /\ IsRegistration
    /\ last.op = "add_tool"
    /\ last.duplicate
    /\ last.warned
    /\ ~settings.warn_on_duplicate_resources
    /\ Len(tool_manager.entries) = 2
    /\ Len(resource_manager.templates) = 2

\* C5: resource(uri) fails with a configuration error exactly when the URI's
\* placeholder names differ from the function's parameter names, the failure
\* leaves the resource and template registries as they were, and every
\* registered template has placeholder names equal to its function's parameters.
C5_TemplateParams ==
    /\ last.op = "resource" =>
         (last.outcome = "ValueError" <=> re_findall(last.key, 1) # last.fn.params)
    /\ (last.op = "resource" /\ last.outcome = "ValueError") =>
         resource_manager = last.before
    /\ \A i \in 1..Len(resource_manager.templates) :
         re_findall(resource_manager.templates[i].key, 1)
           = resource_manager.templates[i].fn.params

\* A mismatching registration failed while the registries were not empty.
C5_Witness ==
    /\ last.op = "resource"
    /\ last.outcome = "ValueError"
    /\ last.key = U_items_id
    /\ last.fn = get_x
    /\ Len(resource_manager.templates) = 2
    /\ Len(resource_manager.resources) = 1

(***************************************************************************)
(* C1, C3: the auth wiring and the gate on the HTTP entry points.          *)
(***************************************************************************)

\* C1: construction succeeds exactly when auth settings are present and one of
\* auth_server_provider / token_verifier is supplied, or auth settings are
\* absent and neither is; every other combination raises a configuration
\* error in the constructor, with no handler set up, no app built and no
\* request served.
C1_AuthWiring ==
    ctor.called =>
        /\ phase \in {"constructed", "config_error"}
        /\ phase = "constructed" <=>
             \/ ctor.auth /\ (ctor.auth_server_provider # ctor.token_verifier)
             \/ ~ctor.auth /\ ~ctor.auth_server_provider /\ ~ctor.token_verifier
        /\ phase = "config_error" =>
             /\ last.op = "__init__"
             /\ last.outcome = "ValueError"
             /\ ~handlers_set
             /\ ~apps.sse.built
             /\ ~apps.streamable_http.built

\* A provider was supplied without auth settings and construction failed.
C1_Witness ==
    /\ phase = "config_error"
    /\ ~ctor.auth
    /\ ctor.auth_server_provider
    /\ ~ctor.token_verifier

\* C3: with auth configured, on the SSE, message and streamable-HTTP entry
\* points a request whose token does not carry the required scopes is
\* rejected, and the endpoint behind the gate (and so every tool, resource or
\* prompt function) runs only for a request that has them.
C3_GateBeforeHandler ==
    (/\ last.op = "http"
     /\ settings.auth.present
     /\ last.route.kind \in TransportEntryPoints) =>
        LET granted == verify_token(last.token)
            allowed == granted.authenticated
                       /\ settings.auth.required_scopes \subseteq granted.scopes
        IN /\ last.endpoint_ran => allowed
           /\ ~allowed => last.status \in {401, 403}

\* A request without a token was rejected at the message endpoint of a server
\* that requires the scope read.
C3_Witness ==
    /\ last.op = "http"
    /\ last.route.kind = "message"
    /\ settings.auth.required_scopes = {"read"}
    /\ last.token = "none"
    /\ last.status = 401
    /\ ~last.endpoint_ran

(***************************************************************************)
(* C2, C7, C8: reads and the context outside a request.                    *)
(***************************************************************************)

\* C2: every capability method of a Context obtained while no request is in
\* flight fails, and has no side effect: it sends no notification on any
\* session and runs no resource function.
C2_OutsideRequestFails ==
    (last.op = "context" /\ ~last.in_request) =>
        /\ last.outcome # "ok"
        /\ last.sends = <<>>
        /\ last.runs = <<>>

\* C7: with the template items/{id} registered for a function of parameter id
\* (and nothing else that serves items/42), reading items/42 runs that function
\* once with id bound to "42"; reading items/ is reported as not found and runs
\* nothing.
C7_TemplateBinding ==
    (/\ last.op = "read_resource"
     /\ HasKey(resource_manager.templates, U_items_id)) =>
        /\ (/\ last.uri = U_items_42
            /\ ~HasKey(resource_manager.resources, U_items_42)
            /\ ~HasKey(resource_manager.templates, U_id_42)) =>
               last.runs =
                 <<[fn |-> resource_manager.templates[
                             IndexOf(resource_manager.templates, U_items_id)].fn.name,
                    args |-> (S_id :> <<"4", "2">>)]>>
        /\ last.uri = U_items_ =>
               /\ last.outcome = "ResourceError"
               /\ last.message = "Unknown resource"
               /\ last.runs = <<>>

\* items/42 was read through the template.
C7_Witness ==
    /\ last.op = "read_resource"
    /\ last.uri = U_items_42
    /\ last.outcome = "ok"
    /\ last.runs = <<[fn |-> "get_item", args |-> (S_id :> <<"4", "2">>)]>>
    /\ resource_manager.resources = <<>>

\* C8: a URI with no exact-URI resource that matches several templates is served
\* by exactly one of them, the one registered earliest.
C8_FirstMatchWins ==
    (/\ last.op = "read_resource"
     /\ ~HasKey(resource_manager.resources, last.uri)
     /\ \E i \in 1..Len(resource_manager.templates) :
           matches(resource_manager.templates[i].key, last.uri).ok) =>
        LET first == Min({i \in 1..Len(resource_manager.templates) :
                            matches(resource_manager.templates[i].key, last.uri).ok})
        IN /\ Len(last.runs) = 1
           /\ last.runs[1].fn = resource_manager.templates[first].fn.name

\* Two templates match items/42; the earlier one, {id}/42, served the read.
C8_Witness ==
    /\ last.op = "read_resource"
    /\ last.uri = U_items_42
    /\ resource_manager.resources = <<>>
    /\ Len(resource_manager.templates) = 2
    /\ resource_manager.templates[1] = [key |-> U_id_42, fn |-> find_item]
    /\ resource_manager.templates[2] = [key |-> U_items_id, fn |-> get_item]
    /\ last.runs = <<[fn |-> "find_item", args |-> (S_id :> S_items)]>>

(***************************************************************************)
(* C6: calling a tool.                                                     *)
(***************************************************************************)

\* C6: a call of a registered tool with arguments valid for it runs the
\* function registered under that name, and no other, exactly once, and the
\* content returned is the normalization of the function's return value.
C6_CallTool ==
    (/\ last.op = "call_tool"
     /\ HasKey(tool_manager.entries, last.name)
     /\ ValidArguments(tool_manager.entries[IndexOf(tool_manager.entries, last.name)].fn,
                       last.arguments)) =>
        /\ last.runs =
             <<[fn |-> tool_manager.entries[IndexOf(tool_manager.entries, last.name)].fn.name,
                args |-> last.arguments]>>
        /\ last.outcome = "ok" => last.content = _convert_to_content(last.result)

\* "add", registered for shout after echo was registered under "echo", was
\* called and returned a nested list.
C6_Witness ==
    /\ last.op = "call_tool"
    /\ last.name = "add"
    /\ last.outcome = "ok"
    /\ last.runs = <<[fn |-> "shout", args |-> (S_x :> "hi")]>>
    /\ Len(tool_manager.entries) = 2
    /\ tool_manager.entries[1].key = "echo"
    /\ last.result = PyList(<<PyInt(42), PyTuple(<<Image("px")>>)>>)
    /\ last.content = <<TextContent("42"), ImageContent("px", "image/png")>>

(***************************************************************************)
(* C11, C12: the context of a running tool function.                       *)
(***************************************************************************)
\* the progress token of the request served on task k
ProgressTokenOf(k) ==
    IF request_ctx[k].present /\ request_ctx[k].meta.present
        THEN request_ctx[k].meta.progressToken
        ELSE "None"

\* C11: while a request is served, report_progress raises nothing; if the
\* request carried no progress token (no metadata, or metadata without a
\* token), no call, however many are made, sends a notification; if it carried
\* one, every call sends exactly one, on the request's session, with that token.
C11_ProgressNoOp ==
    /\ \A k \in Tasks :
         (inflight[k].active /\ request_ctx[k].present) =>
            IF ProgressTokenOf(k) = "None"
                THEN inflight[k].progress_sent = 0
                ELSE inflight[k].progress_sent = inflight[k].progress_calls
    /\ (/\ last.op = "handler_context"
        /\ last.method = "report_progress"
        /\ request_ctx[last.task].present) =>
          /\ last.outcome = "ok"
          /\ last.sends =
               IF ProgressTokenOf(last.task) = "None" THEN <<>>
               ELSE <<[kind |-> "progress", session |-> request_ctx[last.task].session,
                       progress_token |-> ProgressTokenOf(last.task)]>>

\* On one task report_progress was called twice for a request whose metadata
\* has no token, on the other twice for a request with a token.
C11_Witness ==
    /\ inflight["task1"].active
    /\ request_ctx["task1"].present
    /\ request_ctx["task1"].meta = [present |-> TRUE, progressToken |-> "None"]
    /\ inflight["task1"].progress_calls = 2
    /\ inflight["task1"].progress_sent = 0
    /\ inflight["task2"].active
    /\ ProgressTokenOf("task2") = "tok"
    /\ inflight["task2"].progress_sent = 2
    /\ last.op = "handler_context"
    /\ last.task = "task1"
    /\ last.method = "report_progress"

\* what a notification sent for the request on task k must carry
SentFor(k, n) ==
    /\ n.session = request_ctx[k].session
    /\ n.kind = "progress" => n.progress_token = ProgressTokenOf(k)
    /\ n.kind = "log" => n.related_request_id = request_ctx[k].request_id

\* C12: under every interleaving of requests, the context a tool function
\* holds is the one made for its own call from its own request's context; two
\* calls in flight never hold the same context; and every progress or log
\* notification the function of a request emits carries that request's
\* progress token or request id and goes to that request's session.
C12_ContextPerRequest ==
    /\ \A k \in Tasks :
         inflight[k].active =>
            inflight[k].context = [request_context |-> request_ctx[k], fastmcp |-> TRUE]
    /\ \A a, b \in RequestTasks :
         (/\ a # b
          /\ inflight[a].active /\ request_ctx[a].present
          /\ inflight[b].active /\ request_ctx[b].present) =>
            inflight[a].context # inflight[b].context
    /\ (last.op = "handler_context" /\ request_ctx[last.task].present) =>
         /\ last.outcome = "ok"
         /\ \A i \in 1..Len(last.sends) : SentFor(last.task, last.sends[i])
         /\ last.method \in LogMethods => Len(last.sends) = 1

\* The function of the request on task2 (session s2) logged while the request
\* on task1 (session s1, with a progress token) was in flight.
C12_Witness ==
    /\ inflight["task1"].active
    /\ inflight["task2"].active
    /\ request_ctx["task1"].present
    /\ request_ctx["task2"].present
    /\ request_ctx["task1"].session = "s1"
    /\ ProgressTokenOf("task1") = "tok"
    /\ inflight["task1"].progress_sent = 1
    /\ request_ctx["task2"].session = "s2"
    /\ request_ctx["task2"].meta = [present |-> FALSE]
    /\ last.op = "handler_context"
    /\ last.task = "task2"
    /\ last.method = "warning"
    /\ last.sends = <<[kind |-> "log", session |-> "s2", level |-> "warning",
                       related_request_id |-> "task2"]>>

(***************************************************************************)
(* C13: an outstanding elicitation.                                        *)
(***************************************************************************)
Outstanding(k) == inflight[k].active /\ inflight[k].awaiting = "elicit"

C15_SessionManagerOnce ==
    /\ [](session_manager.present <=> apps.streamable_http.built)
    /\ [](last.op = "session_manager" =>
            /\ last.outcome = "ok" <=> apps.streamable_http.built
            /\ last.outcome = "RuntimeError" => ~session_manager.present
            /\ last.outcome = "ok" => last.manager = session_manager)
    /\ [][session_manager.present => session_manager' = session_manager]_vars
    /\ [][(~session_manager.present /\ session_manager'.present) =>
             (last'.op = "streamable_http_app" /\ last'.created)]_vars
    /\ [][last'.op = "session_manager" => session_manager' = session_manager]_vars

\* A second streamable_http_app() call found the manager the first one made.
C15_Witness ==
    /\ last.op = "streamable_http_app"
    /\ ~last.created
    /\ session_manager.present
    /\ session_manager.serial = 1
    /\ apps.streamable_http.built

(***************************************************************************)
(* C16, C17: failures of call_tool, get_prompt and read_resource.          *)
(***************************************************************************)
\* what the caller of the facade gets to see of a failure
Seen(r) == [outcome |-> r.outcome, condition |-> r.condition, message |-> r.message]

\* what really happened in the last call of a tool or a prompt
CauseOf(r) == IF r.op = "get_prompt" THEN r.cause ELSE r.condition

\* what the caller sees when the arguments of a tool / a prompt fail validation
SeenInvalidArguments(op) ==
    IF op = "get_prompt"
        THEN [outcome |-> "ValueError", condition |-> "none",
              message |-> InvalidArgumentsMessage]
        ELSE [outcome |-> "ToolError", condition |-> "invalid_arguments",
              message |-> "invalid arguments"]

\* C16: for call_tool and get_prompt, what the caller sees of a failed
\* validation of the arguments is seen for no unknown name and for no failure
\* raised by the function itself.
C16_InvalidArgumentsDistinct ==
    (last.op \in {"call_tool", "get_prompt"} /\ last.outcome # "ok") =>
        (Seen(last) = SeenInvalidArguments(last.op)
            <=> CauseOf(last) = "invalid_arguments")

\* the calls that run user functions
IsCall == last.op \in {"read_resource", "get_prompt", "call_tool"}

\* the user function ran and raised
HandlerRaised == IsCall /\ last.outcome # "ok" /\ last.runs # <<>>

\* the message of what the function raised
HandlerMessage(r) == IF r.op = "get_prompt" THEN r.message ELSE "str(e)"

\* C17: an exception raised by a resource's or a prompt's function is caught
\* by the facade and raised again as ResourceError / ValueError with the
\* function's message; call_tool catches nothing: a failure of a tool's
\* function reaches the caller as the tool manager raises it, here a ToolError
\* with the function's message; in all three the failed call leaves the
\* registries as they were.
C17_HandlerFailure ==
    /\ [](HandlerRaised =>
            /\ last.op = "read_resource" =>
                 /\ last.outcome = "ResourceError"
                 /\ last.raised_by = "FastMCP.read_resource"
            /\ last.op = "get_prompt" =>
                 /\ last.outcome = "ValueError"
                 /\ last.raised_by = "FastMCP.get_prompt"
                 /\ last.message \in HandlerMessages
            /\ last.op = "call_tool" =>
                 /\ last.outcome = "ToolError"
                 /\ last.condition = "handler_failure"
                 /\ last.raised_by = "ToolManager.call_tool"
            /\ last.op # "get_prompt" => last.message = "str(e)"
            /\ Len(last.runs) = 1)
    /\ [][IsCall' => regVars' = regVars]_vars

\* C17 as stated: whatever a user function raises during read_resource,
\* get_prompt or call_tool is caught by the facade.
C17_CaughtByFacade ==
    HandlerRaised =>
        last.raised_by \in {"FastMCP.read_resource", "FastMCP.get_prompt", "FastMCP.call_tool"}

\* The function of the prompt greet raised boom, and get_prompt raised
\* ValueError("boom") with the registries filled.
C17_Witness ==
    /\ last.op = "get_prompt"
    /\ last.outcome = "ValueError"
    /\ last.message = "boom"
    /\ last.cause = "handler_failure"
    /\ Len(last.runs) = 1
    /\ Len(prompt_manager.entries) = 1
    /\ Len(tool_manager.entries) = 1
    /\ Len(resource_manager.templates) = 1

(***************************************************************************)
(* C18, C19: the metadata URL of the requirement stage and the metadata    *)
(* endpoint.                                                               *)
(***************************************************************************)
BuiltApps == {name \in {"sse", "streamable_http"} : apps[name].built}

\* C18: every route wrapped in the requirement stage was given a resource
\* metadata URL, and the challenge of every rejected request names it.
C18_MetadataUrlPresent ==
    /\ \A name \in BuiltApps : \A i \in 1..Len(apps[name].routes) :
          apps[name].routes[i].require_auth =>
              apps[name].routes[i].resource_metadata_url # "None"
    /\ (last.op = "http" /\ last.status \in {401, 403}) => last.challenge # "None"

IsMetadataRoute(route) == route.kind = "protected_resource_metadata"

\* C19: a built SSE or streamable-HTTP app has the protected-resource
\* metadata route exactly when the auth settings are present and carry a
\* resource server URL; the route is never wrapped in the requirement stage,
\* and a request for it reaches the endpoint whatever its token, also without
\* one.
C19_MetadataEndpointOpen ==
    /\ \A name \in BuiltApps :
          /\ (\E i \in 1..Len(apps[name].routes) : IsMetadataRoute(apps[name].routes[i]))
                <=> (settings.auth.present /\ settings.auth.resource_server_url)
          /\ \A i \in 1..Len(apps[name].routes) :
                IsMetadataRoute(apps[name].routes[i]) => ~apps[name].routes[i].require_auth
    /\ (last.op = "http" /\ IsMetadataRoute(last.route)) =>
          /\ last.status = 200
          /\ last.endpoint_ran

\* On a server that requires the scope read, a request without a token got
\* the metadata from the streamable-HTTP app, whose entry point is gated.
C19_Witness ==
    /\ last.op = "http"
    /\ last.app = "streamable_http"
    /\ IsMetadataRoute(last.route)
    /\ last.token = "none"
    /\ last.status = 200
    /\ last.endpoint_ran
    /\ settings.auth.required_scopes = {"read"}
    /\ \E i \in 1..Len(apps.streamable_http.routes) :
          apps.streamable_http.routes[i].require_auth

(***************************************************************************)
(* C20: one pair of streams per stdio / SSE connection, released after     *)
(* the run-loop.                                                           *)
(***************************************************************************)
StreamsOf(c) == {connections[c].read_stream, connections[c].write_stream}

\* C20: a stdio or SSE connection has at most one pair of streams and one
\* run-loop, the run-loop runs over that open pair, and once the run-loop has
\* ended, by returning or by raising, both streams are eventually released
\* and stay released.
C20_StreamsReleased ==
    /\ [](\A c \in Connections :
            /\ connections[c].pairs <= 1
            /\ connections[c].run_loops <= connections[c].pairs
            /\ connections[c].state \in {"running", "ended"} =>
                 /\ connections[c].pairs = 1
                 /\ connections[c].run_loops = 1
                 /\ StreamsOf(c) = {"open"}
            /\ connections[c].state = "released" => StreamsOf(c) = {"closed"})
    /\ \A c \in Connections :
          (connections[c].state = "ended") ~> [](StreamsOf(c) = {"closed"})

\* The run-loop of one SSE connection raised and its streams were released
\* while the other SSE connection and the stdio connection are still running.
C20_Witness ==
    /\ connections.sse1.state = "released"
    /\ connections.sse1.ended = "raised"
    /\ StreamsOf("sse1") = {"closed"}
    /\ connections.sse2.state = "running"
    /\ connections.stdio.state = "running"

(***************************************************************************)
(* C21: custom routes in the route lists of the apps.                      *)
(***************************************************************************)
IsCustom(route) == route.kind = "custom"

\* the number of built-in routes at the head of a route list
BuiltInCount(routes) == Cardinality({i \in 1..Len(routes) : ~IsCustom(routes[i])})

\* the custom routes come last in the list and are a prefix of the registered ones
CustomRoutesLast(routes) ==
    LET b == BuiltInCount(routes)
    IN /\ \A i \in 1..Len(routes) : IsCustom(routes[i]) <=> i > b
       /\ Len(routes) - b <= Len(custom_starlette_routes)
       /\ \A j \in 1..(Len(routes) - b) :
             /\ routes[b + j].path = custom_starlette_routes[j].path
             /\ routes[b + j].methods = custom_starlette_routes[j].methods
             /\ routes[b + j].endpoint = custom_starlette_routes[j].endpoint

HasPlaceholder(uri) == re_findall(uri, 1) # {}

\* C22: a successful resource(uri) registration goes to one registry, the
\* templates if the URI has a placeholder or the function has a parameter and
\* the flat resources otherwise, so no template has a placeholder-free URI
\* and a function without parameters.
C22_OneRegistry ==
    /\ (last.op = "resource" /\ last.outcome = "ok") =>
          /\ last.registry \in {"templates", "resources"}
          /\ last.registry = "templates"
               <=> (HasPlaceholder(last.key) \/ last.fn.params # {})
    /\ \A i \in 1..Len(resource_manager.templates) :
          \/ HasPlaceholder(resource_manager.templates[i].key)
          \/ resource_manager.templates[i].fn.params # {}

(***************************************************************************)
(* C23: the token verifier and the two auth stages.                        *)
(***************************************************************************)
HasBearerStage(app) ==
    \E i \in 1..Len(app.middleware) : app.middleware[i] = "AuthenticationMiddleware"

TransportRoutes(app) ==
    {i \in 1..Len(app.routes) : app.routes[i].kind \in TransportEntryPoints}

\* C23: on a constructed server a token verifier is present exactly when the
\* auth settings are, a provider given alone being wrapped into one; and in a
\* built SSE or streamable-HTTP app the bearer-verification middleware is
\* installed and every transport entry point is wrapped in the requirement
\* stage exactly when the auth settings are present.
C23_VerifierIffAuth ==
    phase = "constructed" =>
        /\ token_verifier # "None" <=> settings.auth.present
        /\ (auth_server_provider /\ ~ctor.token_verifier)
              => token_verifier = "ProviderTokenVerifier"
        /\ ctor.token_verifier => token_verifier = "given"
        /\ \A name \in BuiltApps :
              /\ HasBearerStage(apps[name]) <=> settings.auth.present
              /\ TransportRoutes(apps[name]) # {}
              /\ \A i \in TransportRoutes(apps[name]) :
                    apps[name].routes[i].require_auth <=> settings.auth.present

\* A server was constructed with auth settings and a provider only; both
\* apps are built with the bearer stage and the requirement stage, and a
\* request with a token that lacks the scope was refused at the SSE endpoint.
C23_Witness ==
    /\ phase = "constructed"
    /\ settings.auth.present
    /\ auth_server_provider
    /\ ~ctor.token_verifier
    /\ token_verifier = "ProviderTokenVerifier"
    /\ apps.sse.built /\ HasBearerStage(apps.sse)
    /\ apps.streamable_http.built /\ HasBearerStage(apps.streamable_http)
    /\ last.op = "http"
    /\ last.app = "sse"
    /\ last.route.kind = "sse"
    /\ last.route.require_auth
    /\ last.token = "tok_noscope"
    /\ last.status = 403

(***************************************************************************)
(* C9, C10: properties of the normalizer.                                  *)
(***************************************************************************)

\* C9: normalization is idempotent: normalizing the sequence produced by
\* normalizing a handler return value yields that same sequence.
C9_Idempotent ==
    reconverted.done => reconverted.blocks = converted.blocks

\* A nested return value whose normalization differs from it was normalized twice.
C9_Witness ==
    /\ reconverted.done
    /\ result = PyTuple(<<PyInt(42), PyList(<<Image("px")>>)>>)
    /\ converted.blocks = <<TextContent("42"), ImageContent("px", "image/png")>>

\* The non-None scalars of a value, depth-first and left to right.
RECURSIVE Leaves(_)
Leaves(v) ==
    IF v.t \in {"list", "tuple"}
        THEN chain_from_iterable([i \in 1..Len(v.items) |-> Leaves(v.items[i])])
    ELSE IF v.t = "None" THEN <<>>
    ELSE <<v>>

\* C10: a list or tuple normalizes to the concatenation, in element order, of
\* the normalizations of its elements; None contributes nothing, so the output
\* has one block per non-None leaf, in leaf order.
C10_Flatten ==
    converted.done =>
        /\ Len(converted.blocks) = Len(Leaves(result))
        /\ \A i \in 1..Len(Leaves(result)) :
              _convert_to_content(Leaves(result)[i]) = <<converted.blocks[i]>>
        /\ result.t \in {"list", "tuple"} =>
              converted.blocks =
                chain_from_iterable([i \in 1..Len(result.items) |->
                                        _convert_to_content(result.items[i])])
        /\ result.t = "None" => converted.blocks = <<>>

\* A nested value with None elements was flattened.
C10_Witness ==
    /\ converted.done
    /\ result = PyList(<<PyNone, PyTuple(<<PyStr("hi")>>)>>)
    /\ converted.blocks = <<TextContent("hi")>>

====
